---- MODULE Spec2Model ----
(***************************************************************************)
(* A model of the background job scheduler of src/core/background_jobs.py: *)
(* one JobQueue, its coordinator loop (JobQueue.start), the execution      *)
(* tasks it creates (JobQueue._execute_job) and the external calls         *)
(* add_job and cancel_job, all running on one asyncio event loop.          *)
(*                                                                         *)
(* Everything between two awaits is one atomic step of the event loop.     *)
(* One iteration of the coordinator loop (promotion, dispatch, retention   *)
(* cleanup) contains no suspension point and is one action, Tick.  A task  *)
(* created by the dispatch pass runs its first step (status = RUNNING)     *)
(* only when the event loop reaches it in its ready queue; callbacks that  *)
(* were already ready (an HTTP handler calling cancel_job or add_job) run  *)
(* before it.  The coordinator sleeps one second after a tick, so every    *)
(* task it created has started before its next tick.  A queue has no       *)
(* coordinator until a task is created for JobQueue.start, and it has      *)
(* several once start_all_queues was called again.                         *)
(*                                                                         *)
(* Time is the clock datetime.now() reads, counted in whole hours.         *)
(*                                                                         *)
(* A synchronous handler runs in a thread of the queue's                   *)
(* ThreadPoolExecutor; cancelling the asyncio future that waits for it     *)
(* does not stop the thread.  JobQueue.shutdown is a call in two steps,    *)
(* before and after its await.  The JobManager (the registry of queues,    *)
(* its coordinator tasks and shutdown_all_queues) is modelled beside the   *)
(* queue, each registered queue reduced to the fields the manager reads    *)
(* or writes.                                                              *)
(***************************************************************************)
EXTENDS Integers, Sequences, FiniteSets, TLC

(***************************************************************************)
(* Bounds of the model.                                                    *)
(***************************************************************************)
MaxJobs == 2          \* add_job calls in one behaviour
MaxPrioJobs == 3      \* the same, where jobs differ in priority only
MaxWorkersBound == 1  \* max_workers ranges over 1..MaxWorkersBound
MaxAdvances == 2      \* number of times the clock moves
MaxCoordinators == 2  \* coordinator tasks created for one queue

(***************************************************************************)
(* Program constants.                                                      *)
(***************************************************************************)
LOW == 1
NORMAL == 2
HIGH == 3
CRITICAL == 4
RetentionHours == 24

PENDING == "pending"
RUNNING == "running"
COMPLETED == "completed"
FAILED == "failed"
CANCELLED == "cancelled"
RETRYING == "retrying"

JobStatus == {PENDING, RUNNING, COMPLETED, FAILED, CANCELLED, RETRYING}
JobPriority == {LOW, NORMAL, HIGH, CRITICAL}
Terminal == {COMPLETED, FAILED, CANCELLED}

\* Optional[T]: None is the empty sequence, a value v is <<v>>.
None == << >>
Some(v) == << v >>

\* str(e) of the exceptions that reach "except Exception as e".
\* A handler of kind "raise" raises Exception("boom"); asyncio.wait_for
\* raises TimeoutError() without arguments, whose str() is empty.
StrHandlerError == "boom"
StrTimeoutError == ""

VARIABLES
    max_workers,      \* JobQueue.max_workers
    jobs,             \* JobQueue._jobs: job id -> Job
    queue,            \* JobQueue._queue: the dispatch list
    running,          \* JobQueue._running: job id -> state of its task
    ready,            \* first steps of created tasks in the loop's ready queue
    stats,            \* JobQueue._stats
    nextId,           \* the next fresh job id (uuid4 never repeats)
    now,              \* datetime.now()
    calls,            \* history: handler invocations per job id
    execOrder,        \* history: job ids in the order their execution began
    cancelledPending, \* history: ids for which cancel_job took the PENDING branch
    shutdown,         \* JobQueue._shutdown and the position of the shutdown() call
    threads,          \* job ids whose handler is executing in an executor thread
    work,             \* job ids of the work items waiting in the executor
    effects,          \* history: handler computations that ran to their end, per job id
    ret,              \* the value the latest cancel_job call returned
    queues,           \* JobManager._queues, in dict (insertion) order
    tasks,            \* JobManager._tasks: queue name -> state of its coordinator task
    mgrRet,           \* outcome of the latest JobManager call, or of an add_job that raised
    mgrPc,            \* position of the shutdown_all_queues() call
    coordinators      \* tasks created to run JobQueue.start() of the queue

poolVars == << threads, work, effects >>
mgrVars == << queues, tasks, mgrRet, mgrPc >>

vars == << max_workers, jobs, queue, running, ready, stats, nextId, now,
           calls, execOrder, cancelledPending, shutdown, threads, work,
           effects, ret, queues, tasks, mgrRet, mgrPc, coordinators >>

\* the ids add_job has returned so far
JobIds == 1..(nextId - 1)

Range(s) == { s[i] : i \in 1..Len(s) }

(***************************************************************************)
(* The Job dataclass.  func stands for the callable: on each of its first  *)
(* func.fails invocations it misbehaves (kind "raise": raises an           *)
(* exception; kind "slow": runs longer than any timeout), afterwards it    *)
(* returns normally.  func.sync tells a plain function, which the queue    *)
(* runs in its executor, from a coroutine function.                        *)
(***************************************************************************)
NewJob(priority, max_retries, retry_delay, scheduled_at, timeout, func) ==
    [ status       |-> PENDING,
      priority     |-> priority,
      started_at   |-> None,
      completed_at |-> None,
      result       |-> None,
      error        |-> None,
      retry_count  |-> 0,
      max_retries  |-> max_retries,
      retry_delay  |-> retry_delay,
      scheduled_at |-> scheduled_at,
      timeout      |-> timeout,
      func         |-> func ]

(***************************************************************************)
(* JobQueue.__init__ and JobManager.__init__: a queue without jobs and     *)
(* without a coordinator, a manager without queues.  Init is a queue made  *)
(* by its owner with max_workers of the owner's choice.                    *)
(***************************************************************************)
Constructed ==
    /\ jobs = << >>
    /\ queue = << >>
    /\ running = << >>
    /\ ready = << >>
    /\ stats = [ total_jobs |-> 0, completed_jobs |-> 0,
                 failed_jobs |-> 0, cancelled_jobs |-> 0 ]
    /\ nextId = 1
    /\ now = 0
    /\ calls = << >>
    /\ execOrder = << >>
    /\ cancelledPending = {}
    /\ shutdown = "no"
    /\ threads = {}
    /\ work = << >>
    /\ effects = << >>
    /\ ret = None
    /\ queues = << >>
    /\ tasks = << >>
    /\ mgrRet = None
    /\ mgrPc = [ state |-> "idle", i |-> 0, size |-> 0 ]
    /\ coordinators = 0

Init ==
    /\ max_workers \in 1..MaxWorkersBound
    /\ Constructed

(***************************************************************************)
(* JobQueue._enqueue_job: the for loop that finds insert_index (0-based),  *)
(* then list.insert.                                                       *)
(***************************************************************************)
\* variants of the comparison in the loop: ">=" and "<" in place of ">"
RECURSIVE InsertIndexBeforeEqual(_, _, _, _)
InsertIndexBeforeEqual(q, js, id, i) ==
    IF i > Len(q) THEN Len(q)
    ELSE IF js[id].priority >= js[q[i]].priority THEN i - 1
    ELSE InsertIndexBeforeEqual(q, js, id, i + 1)

RECURSIVE InsertIndexAscending(_, _, _, _)
InsertIndexAscending(q, js, id, i) ==
    IF i > Len(q) THEN Len(q)
    ELSE IF js[id].priority < js[q[i]].priority THEN i - 1
    ELSE InsertIndexAscending(q, js, id, i + 1)

RECURSIVE InsertIndex(_, _, _, _)
InsertIndex(q, js, id, i) ==
    IF i > Len(q) THEN Len(q)
    ELSE IF js[id].priority > js[q[i]].priority THEN i - 1
    ELSE InsertIndex(q, js, id, i + 1)

\* variant: list.insert(0, id)
ListInsertFirst(q, k, id) == << id >> \o q

ListInsert(q, k, id) == SubSeq(q, 1, k) \o << id >> \o SubSeq(q, k + 1, Len(q))

EnqueueJob(q, js, id) ==
    IF id \in Range(q) THEN q
    ELSE ListInsert(q, InsertIndex(q, js, id, 1), id)

(***************************************************************************)
(* JobQueue._process_scheduled_jobs: dict order is insertion order, that   *)
(* is increasing job id.                                                   *)
(***************************************************************************)
\* variant: a due job is appended to the list
RECURSIVE ProcessScheduledJobsAppends(_, _, _, _)
ProcessScheduledJobsAppends(q, js, t, id) ==
    IF id >= nextId THEN q
    ELSE IF /\ id \in DOMAIN js
            /\ js[id].status = PENDING
            /\ js[id].scheduled_at # None
            /\ js[id].scheduled_at[1] <= t
            /\ id \notin Range(q)
         THEN ProcessScheduledJobsAppends(Append(q, id), js, t, id + 1)
         ELSE ProcessScheduledJobsAppends(q, js, t, id + 1)

\* variant: without the comparison of scheduled_at with the clock
RECURSIVE ProcessScheduledJobsUngated(_, _, _, _)
ProcessScheduledJobsUngated(q, js, t, id) ==
    IF id >= nextId THEN q
    ELSE IF /\ id \in DOMAIN js
            /\ js[id].status = PENDING
            /\ js[id].scheduled_at # None
            /\ id \notin Range(q)
         THEN ProcessScheduledJobsUngated(EnqueueJob(q, js, id), js, t, id + 1)
         ELSE ProcessScheduledJobsUngated(q, js, t, id + 1)

RECURSIVE ProcessScheduledJobs(_, _, _, _)
ProcessScheduledJobs(q, js, t, id) ==
    IF id >= nextId THEN q
    ELSE IF /\ id \in DOMAIN js
            /\ js[id].status = PENDING
            /\ js[id].scheduled_at # None
            /\ js[id].scheduled_at[1] <= t
            /\ id \notin Range(q)
         THEN ProcessScheduledJobs(EnqueueJob(q, js, id), js, t, id + 1)
         ELSE ProcessScheduledJobs(q, js, t, id + 1)

(***************************************************************************)
(* JobQueue._start_available_jobs: the while loop.  The result is the      *)
(* dispatch list, the running map and the ready queue after the loop.      *)
(***************************************************************************)
\* variant: the dispatch pass does not look at the number of running tasks
HasCapacityAlways(r) == TRUE

\* variant: "<=" in place of "<"
HasCapacityInclusive(r) == Cardinality(DOMAIN r) <= max_workers

HasCapacity(r) == Cardinality(DOMAIN r) < max_workers

RECURSIVE StartAvailableJobs(_, _, _, _)
StartAvailableJobs(q, js, r, rdy) ==
    IF ~ (HasCapacity(r) /\ q # << >> /\ shutdown = "no")
    THEN [ queue |-> q, running |-> r, ready |-> rdy ]
    ELSE LET job_id == Head(q)
         IN  IF js[job_id].status = CANCELLED
             THEN StartAvailableJobs(Tail(q), js, r, rdy)
             ELSE StartAvailableJobs(Tail(q), js,
                      [ j \in DOMAIN r \cup {job_id} |->
                          IF j = job_id THEN "created" ELSE r[j] ],
                      Append(rdy, job_id))

(***************************************************************************)
(* JobQueue._cleanup_completed_jobs                                        *)
(***************************************************************************)
\* variant: "<=" in place of "<"
ExpiredInclusive(job, t) ==
    /\ job.status \in {COMPLETED, FAILED, CANCELLED}
    /\ job.completed_at # None
    /\ job.completed_at[1] <= t - RetentionHours

Expired(job, t) ==
    /\ job.status \in {COMPLETED, FAILED, CANCELLED}
    /\ job.completed_at # None
    /\ job.completed_at[1] < t - RetentionHours

CleanupCompletedJobs(js, t) ==
    [ j \in { i \in DOMAIN js : ~ Expired(js[i], t) } |-> js[j] ]

(***************************************************************************)
(* JobQueue.add_job                                                        *)
(***************************************************************************)
\* variant: the update of total_jobs is lost
AddJobLosesCount(priority, max_retries, retry_delay, scheduled_at, timeout, func) ==
    /\ LET job_id == nextId
           js == [ j \in DOMAIN jobs \cup {job_id} |->
                     IF j = job_id
                     THEN NewJob(priority, max_retries, retry_delay,
                                 scheduled_at, timeout, func)
                     ELSE jobs[j] ]
       IN  /\ jobs' = js
           /\ stats' = stats
           /\ queue' = IF scheduled_at = None \/ scheduled_at[1] <= now
                       THEN EnqueueJob(queue, js, job_id)
                       ELSE queue
    /\ nextId' = nextId + 1
    /\ calls' = Append(calls, 0)
    /\ effects' = Append(effects, 0)
    /\ UNCHANGED << max_workers, running, ready, now, execOrder,
                    cancelledPending >>
    /\ UNCHANGED << shutdown, threads, work, ret, mgrVars, coordinators >>

AddJob(priority, max_retries, retry_delay, scheduled_at, timeout, func) ==
    /\ LET job_id == nextId
           js == [ j \in DOMAIN jobs \cup {job_id} |->
                     IF j = job_id
                     THEN NewJob(priority, max_retries, retry_delay,
                                 scheduled_at, timeout, func)
                     ELSE jobs[j] ]
       IN  /\ jobs' = js
           /\ stats' = [ stats EXCEPT !.total_jobs = @ + 1 ]
           /\ queue' = IF scheduled_at = None \/ scheduled_at[1] <= now
                       THEN EnqueueJob(queue, js, job_id)
                       ELSE queue
    /\ nextId' = nextId + 1
    /\ calls' = Append(calls, 0)
    /\ effects' = Append(effects, 0)
    /\ UNCHANGED << max_workers, running, ready, now, execOrder,
                    cancelledPending >>
    /\ UNCHANGED << shutdown, threads, work, ret, mgrVars, coordinators >>

\* add_job called where no event loop is running (synchronous code, a
\* thread): asyncio.create_task, the last statement before the return,
\* raises RuntimeError and the caller gets no id
AddJobOutsideLoop(priority, max_retries, retry_delay, scheduled_at, timeout, func) ==
    /\ LET job_id == nextId
           js == [ j \in DOMAIN jobs \cup {job_id} |->
                     IF j = job_id
                     THEN NewJob(priority, max_retries, retry_delay,
                                 scheduled_at, timeout, func)
                     ELSE jobs[j] ]
       IN  /\ jobs' = js
           /\ stats' = [ stats EXCEPT !.total_jobs = @ + 1 ]
           /\ queue' = IF scheduled_at = None \/ scheduled_at[1] <= now
                       THEN EnqueueJob(queue, js, job_id)
                       ELSE queue
    /\ nextId' = nextId + 1
    /\ calls' = Append(calls, 0)
    /\ effects' = Append(effects, 0)
    /\ mgrRet' = Some([ kind |-> "RuntimeError: no running event loop", obj |-> 0 ])
    /\ UNCHANGED << max_workers, running, ready, now, execOrder,
                    cancelledPending >>
    /\ UNCHANGED << shutdown, threads, work, ret, queues, tasks, mgrPc,
                    coordinators >>

(***************************************************************************)
(* JobQueue.cancel_job, one action per branch.                             *)
(***************************************************************************)
ListRemove(q, id) == SelectSeq(q, LAMBDA x : x # id)

CancelPending(job_id) ==
    /\ job_id \in DOMAIN jobs
    /\ jobs[job_id].status = PENDING
    /\ jobs' = [ jobs EXCEPT ![job_id].status = CANCELLED ]
    /\ queue' = IF job_id \in Range(queue) THEN ListRemove(queue, job_id)
                ELSE queue
    /\ stats' = [ stats EXCEPT !.cancelled_jobs = @ + 1 ]
    /\ cancelledPending' = cancelledPending \cup {job_id}
    /\ ret' = Some(TRUE)
    /\ UNCHANGED << max_workers, running, ready, nextId, now, calls, execOrder >>
    /\ UNCHANGED << shutdown, poolVars, mgrVars, coordinators >>

CancelRunning(job_id) ==
    /\ job_id \in DOMAIN jobs
    /\ jobs[job_id].status = RUNNING
    /\ job_id \in DOMAIN running
    /\ running' = [ running EXCEPT ![job_id] = "cancelling" ]
    /\ jobs' = [ jobs EXCEPT ![job_id].status = CANCELLED ]
    /\ stats' = [ stats EXCEPT !.cancelled_jobs = @ + 1 ]
    /\ ret' = Some(TRUE)
    /\ UNCHANGED << max_workers, queue, ready, nextId, now, calls, execOrder,
                    cancelledPending >>
    /\ UNCHANGED << shutdown, poolVars, mgrVars, coordinators >>

\* variant: the call falls through to "return True"
CancelRejectedReturnsTrue(job_id) ==
    /\ \/ job_id \notin DOMAIN jobs
       \/ /\ job_id \in DOMAIN jobs
          /\ jobs[job_id].status # PENDING
          /\ ~ (jobs[job_id].status = RUNNING /\ job_id \in DOMAIN running)
    /\ ret' = Some(TRUE)
    /\ UNCHANGED << max_workers, jobs, queue, running, ready, stats, nextId,
                    now, calls, execOrder, cancelledPending >>
    /\ UNCHANGED << shutdown, poolVars, mgrVars, coordinators >>

\* the two "return False": the id is unknown, or the job is neither PENDING
\* nor (RUNNING and in _running)
CancelRejected(job_id) ==
    /\ \/ job_id \notin DOMAIN jobs
       \/ /\ job_id \in DOMAIN jobs
          /\ jobs[job_id].status # PENDING
          /\ ~ (jobs[job_id].status = RUNNING /\ job_id \in DOMAIN running)
    /\ ret' = Some(FALSE)
    /\ UNCHANGED << max_workers, jobs, queue, running, ready, stats, nextId,
                    now, calls, execOrder, cancelledPending >>
    /\ UNCHANGED << shutdown, poolVars, mgrVars, coordinators >>

\* a cancel_job call, whichever branch it takes
CancelJob(job_id) ==
    \/ CancelPending(job_id)
    \/ CancelRunning(job_id)
    \/ CancelRejected(job_id)

(***************************************************************************)
(* asyncio.create_task(queue.start()) by the owner of a queue that has no  *)
(* coordinator yet.                                                        *)
(***************************************************************************)
StartCoordinator ==
    /\ coordinators = 0
    /\ coordinators' = 1
    /\ UNCHANGED << max_workers, jobs, queue, running, ready, stats, nextId,
                    now, calls, execOrder, cancelledPending >>
    /\ UNCHANGED << shutdown, poolVars, ret, mgrVars >>

(***************************************************************************)
(* One iteration of the loop of JobQueue.start, in one of the tasks that   *)
(* run it.  A coordinator sleeps a second after its pass, so the tasks it  *)
(* created have taken their first step when it wakes up; the pass of       *)
(* another coordinator of the same queue can come before those steps.      *)
(***************************************************************************)
Tick ==
    /\ coordinators > 0
    /\ shutdown = "no"
    /\ ready = << >> \/ coordinators > 1
    /\ LET q1 == ProcessScheduledJobs(queue, jobs, now, 1)
           d == StartAvailableJobs(q1, jobs, running, ready)
       IN  /\ queue' = d.queue
           /\ running' = d.running
           /\ ready' = d.ready
    /\ jobs' = CleanupCompletedJobs(jobs, now)
    /\ UNCHANGED << max_workers, stats, nextId, now, calls, execOrder,
                    cancelledPending >>
    /\ UNCHANGED << shutdown, poolVars, ret, mgrVars, coordinators >>

(***************************************************************************)
(* JobQueue._execute_job up to the await: the first step of the task.  A   *)
(* synchronous handler is handed to the executor, which runs it at once if *)
(* one of its max_workers threads is free and keeps it waiting otherwise.  *)
(***************************************************************************)
StartTask(job_id) ==
    /\ ready # << >>
    /\ job_id = Head(ready)
    /\ running[job_id] = "created"
    /\ ready' = Tail(ready)
    /\ IF jobs[job_id].func.sync
       THEN IF Cardinality(threads) < max_workers
            THEN threads' = threads \cup {job_id} /\ work' = work
            ELSE threads' = threads /\ work' = Append(work, job_id)
       ELSE UNCHANGED << threads, work >>
    /\ jobs' = [ jobs EXCEPT ![job_id].status = RUNNING,
                             ![job_id].started_at = Some(now) ]
    /\ running' = [ running EXCEPT ![job_id] = "awaiting" ]
    /\ calls' = [ calls EXCEPT ![job_id] = @ + 1 ]
    /\ execOrder' = Append(execOrder, job_id)
    /\ UNCHANGED << max_workers, queue, stats, nextId, now, cancelledPending >>
    /\ UNCHANGED << shutdown, effects, ret, mgrVars, coordinators >>

\* the first step of a task that was cancelled before it ran: the coroutine
\* ends at once with CancelledError, none of its body (not even "finally")
\* is executed, and the finished task stays in _running
TaskNeverStarts(job_id) ==
    /\ ready # << >>
    /\ job_id = Head(ready)
    /\ running[job_id] = "cancelled"
    /\ ready' = Tail(ready)
    /\ running' = [ running EXCEPT ![job_id] = "done" ]
    /\ UNCHANGED << max_workers, jobs, queue, stats, nextId, now, calls,
                    execOrder, cancelledPending >>
    /\ UNCHANGED << shutdown, poolVars, ret, mgrVars, coordinators >>

(***************************************************************************)
(* JobQueue._execute_job after the await.  Outcome is what wait_for        *)
(* delivers for this attempt of the handler.                               *)
(***************************************************************************)
Outcome(job) ==
    IF job.retry_count < job.func.fails
    THEN IF job.func.kind = "raise" THEN "error"
         ELSE IF job.timeout # None THEN "timeout"
         ELSE "ok"
    ELSE "ok"

\* variant: the entry stays in _running
RemoveRunningKeeps(r, job_id) == r

RemoveRunning(r, job_id) == [ j \in DOMAIN r \ {job_id} |-> r[j] ]

\* the executor after the thread that ran job_id's handler is free again:
\* the thread takes the next waiting work item
ThreadsAfter(th, w, job_id) ==
    IF w = << >> THEN th \ {job_id} ELSE (th \ {job_id}) \cup {Head(w)}

WorkAfter(w) == IF w = << >> THEN w ELSE Tail(w)

JobSucceeded(job, t) ==
    [ job EXCEPT !.result = Some("ok"),
                 !.status = COMPLETED,
                 !.completed_at = Some(t) ]

\* variant: a failed attempt counts twice
JobFailedCountsTwice(job, t, msg) ==
    LET j1 == [ job EXCEPT !.error = Some(msg), !.retry_count = @ + 2 ]
    IN  IF j1.retry_count <= j1.max_retries
        THEN [ j1 EXCEPT !.status = RETRYING,
                         !.scheduled_at = Some(t + j1.retry_delay) ]
        ELSE [ j1 EXCEPT !.status = FAILED,
                         !.completed_at = Some(t) ]

\* variant: the delay doubles with every failed attempt
JobFailedExponential(job, t, msg) ==
    LET j1 == [ job EXCEPT !.error = Some(msg), !.retry_count = @ + 1 ]
    IN  IF j1.retry_count <= j1.max_retries
        THEN [ j1 EXCEPT !.status = RETRYING,
                         !.scheduled_at =
                             Some(t + j1.retry_delay * (2 ^ j1.retry_count)) ]
        ELSE [ j1 EXCEPT !.status = FAILED,
                         !.completed_at = Some(t) ]

JobFailed(job, t, msg) ==
    LET j1 == [ job EXCEPT !.error = Some(msg), !.retry_count = @ + 1 ]
    IN  IF j1.retry_count <= j1.max_retries
        THEN [ j1 EXCEPT !.status = RETRYING,
                         !.scheduled_at = Some(t + j1.retry_delay) ]
        ELSE [ j1 EXCEPT !.status = FAILED,
                         !.completed_at = Some(t) ]

HandlerReturns(job_id) ==
    /\ job_id \in DOMAIN running
    /\ running[job_id] = "awaiting"
    /\ Outcome(jobs[job_id]) = "ok"
    /\ jobs[job_id].func.sync => job_id \in threads
    /\ jobs' = [ jobs EXCEPT ![job_id] = JobSucceeded(@, now) ]
    /\ stats' = [ stats EXCEPT !.completed_jobs = @ + 1 ]
    /\ running' = RemoveRunning(running, job_id)
    /\ effects' = [ effects EXCEPT ![job_id] = @ + 1 ]
    /\ IF jobs[job_id].func.sync
       THEN /\ threads' = ThreadsAfter(threads, work, job_id)
            /\ work' = WorkAfter(work)
       ELSE UNCHANGED << threads, work >>
    /\ UNCHANGED << max_workers, queue, ready, nextId, now, calls, execOrder,
                    cancelledPending >>
    /\ UNCHANGED << shutdown, ret, mgrVars, coordinators >>

HandlerFails(job_id, kind, msg) ==
    /\ job_id \in DOMAIN running
    /\ running[job_id] = "awaiting"
    /\ Outcome(jobs[job_id]) = kind
    /\ (kind = "error" /\ jobs[job_id].func.sync) => job_id \in threads
    /\ jobs' = [ jobs EXCEPT ![job_id] = JobFailed(@, now, msg) ]
    /\ stats' = IF jobs'[job_id].status = FAILED
                THEN [ stats EXCEPT !.failed_jobs = @ + 1 ]
                ELSE stats
    /\ running' = RemoveRunning(running, job_id)
    /\ IF kind = "error"
       THEN IF jobs[job_id].func.sync
            THEN /\ threads' = ThreadsAfter(threads, work, job_id)
                 /\ work' = WorkAfter(work)
            ELSE UNCHANGED << threads, work >>
       ELSE \* wait_for cancels the future: a waiting work item is dropped,
            \* a thread that is executing goes on
            /\ threads' = threads
            /\ work' = ListRemove(work, job_id)
    /\ UNCHANGED << max_workers, queue, ready, nextId, now, calls, execOrder,
                    cancelledPending >>
    /\ UNCHANGED << shutdown, effects, ret, mgrVars, coordinators >>

HandlerRaises(job_id) == HandlerFails(job_id, "error", StrHandlerError)

HandlerTimesOut(job_id) == HandlerFails(job_id, "timeout", StrTimeoutError)

\* variant: cancelling the task also stops the thread of its handler
TaskCancelledStopsThread(job_id) ==
    /\ job_id \in DOMAIN running
    /\ running[job_id] = "cancelling"
    /\ jobs' = [ jobs EXCEPT ![job_id].status = CANCELLED,
                             ![job_id].completed_at = Some(now) ]
    /\ stats' = [ stats EXCEPT !.cancelled_jobs = @ + 1 ]
    /\ running' = RemoveRunning(running, job_id)
    /\ work' = ListRemove(work, job_id)
    /\ threads' = threads \ {job_id}
    /\ UNCHANGED << max_workers, queue, ready, nextId, now, calls, execOrder,
                    cancelledPending >>
    /\ UNCHANGED << shutdown, effects, ret, mgrVars, coordinators >>

\* except asyncio.CancelledError, after cancel_job or shutdown called
\* task.cancel(): the future of the handler is cancelled with the task, which
\* drops a waiting work item and leaves an executing thread alone
TaskCancelled(job_id) ==
    /\ job_id \in DOMAIN running
    /\ running[job_id] = "cancelling"
    /\ jobs' = [ jobs EXCEPT ![job_id].status = CANCELLED,
                             ![job_id].completed_at = Some(now) ]
    /\ stats' = [ stats EXCEPT !.cancelled_jobs = @ + 1 ]
    /\ running' = RemoveRunning(running, job_id)
    /\ work' = ListRemove(work, job_id)
    /\ UNCHANGED << max_workers, queue, ready, nextId, now, calls, execOrder,
                    cancelledPending >>
    /\ UNCHANGED << shutdown, threads, effects, ret, mgrVars, coordinators >>

\* a handler whose future was cancelled or timed out reaches its end in its
\* thread; nobody waits for its result
Raising(job_id) ==
    /\ job_id \in DOMAIN jobs
    /\ jobs[job_id].func.kind = "raise"
    /\ jobs[job_id].retry_count < jobs[job_id].func.fails

ThreadFinishes(job_id) ==
    /\ job_id \in threads
    /\ job_id \in DOMAIN running => running[job_id] # "awaiting"
    /\ threads' = ThreadsAfter(threads, work, job_id)
    /\ work' = WorkAfter(work)
    /\ effects' = IF Raising(job_id) THEN effects
                  ELSE [ effects EXCEPT ![job_id] = @ + 1 ]
    /\ UNCHANGED << max_workers, jobs, queue, running, ready, stats, nextId,
                    now, calls, execOrder, cancelledPending >>
    /\ UNCHANGED << shutdown, ret, mgrVars, coordinators >>

(***************************************************************************)
(* JobQueue.shutdown: up to its await (the flag is set and every task in   *)
(* _running is cancelled), and from the await to its return (gather has    *)
(* every task done, the executor has joined its threads).                  *)
(***************************************************************************)
\* variant: the tasks are left alone
CancelTaskNot(state) == state

\* task.cancel() by the state of the task
CancelTask(state) ==
    IF state = "created" THEN "cancelled"
    ELSE IF state = "awaiting" THEN "cancelling"
    ELSE state

ShutdownBegins ==
    /\ shutdown = "no"
    /\ shutdown' = "waiting"
    /\ running' = [ j \in DOMAIN running |-> CancelTask(running[j]) ]
    /\ UNCHANGED << max_workers, jobs, queue, ready, stats, nextId, now, calls,
                    execOrder, cancelledPending >>
    /\ UNCHANGED << poolVars, ret, mgrVars, coordinators >>

ShutdownReturns ==
    /\ shutdown = "waiting"
    /\ \A j \in DOMAIN running : running[j] = "done"
    /\ threads = {}
    /\ work = << >>
    /\ shutdown' = "returned"
    /\ UNCHANGED << max_workers, jobs, queue, running, ready, stats, nextId,
                    now, calls, execOrder, cancelledPending >>
    /\ UNCHANGED << poolVars, ret, mgrVars, coordinators >>

(***************************************************************************)
(* The clock moves by one hour or by the retention window.                 *)
(***************************************************************************)
ClockSteps(t) == (t \div RetentionHours) + (t % RetentionHours)

AdvanceClock(d) ==
    /\ ClockSteps(now) < MaxAdvances
    /\ now' = now + d
    /\ UNCHANGED << max_workers, jobs, queue, running, ready, stats, nextId,
                    calls, execOrder, cancelledPending >>
    /\ UNCHANGED << shutdown, poolVars, ret, mgrVars, coordinators >>

(***************************************************************************)
(* Inputs of add_job.                                                      *)
(***************************************************************************)
Returns == [ fails |-> 0, kind |-> "raise", sync |-> FALSE ]
Raises(n) == [ fails |-> n, kind |-> "raise", sync |-> FALSE ]
Slow(n) == [ fails |-> n, kind |-> "slow", sync |-> FALSE ]

\* the same handler as a plain function (asyncio.iscoroutinefunction is false)
Sync(func) == [ func EXCEPT !.sync = TRUE ]

JobInput(priority, max_retries, retry_delay, scheduled_at, timeout, func) ==
    [ priority |-> priority, max_retries |-> max_retries,
      retry_delay |-> retry_delay, scheduled_at |-> scheduled_at,
      timeout |-> timeout, func |-> func ]

\* a caller submits one of the given jobs, as long as fewer than n were submitted
Submit(inputs, n) ==
    /\ nextId <= n
    /\ \E i \in inputs :
          AddJob(i.priority, i.max_retries, i.retry_delay, i.scheduled_at,
                 i.timeout, i.func)

(***************************************************************************)
(* The queue under every interleaving of its operations: jobs of one       *)
(* priority, submitted for now or for the next hour, with no or one retry, *)
(* whose handlers return, always raise or always exceed their timeout.     *)
(***************************************************************************)
LifecycleInputs ==
    { JobInput(NORMAL, 0, 1, None, None, Returns) }
    \cup
    { JobInput(NORMAL, mr, 1, None, None, Raises(2)) : mr \in {0, 1} }
    \cup
    { JobInput(NORMAL, mr, 1, None, Some(1), Slow(2)) : mr \in {0, 1} }

Next ==
    \/ StartCoordinator
    \/ Submit(LifecycleInputs, MaxJobs)
    \/ \E j \in JobIds : CancelPending(j)
    \/ \E j \in JobIds : CancelRunning(j)
    \/ Tick
    \/ \E j \in JobIds : StartTask(j)
    \/ \E j \in JobIds : HandlerReturns(j)
    \/ \E j \in JobIds : HandlerRaises(j)
    \/ \E j \in JobIds : HandlerTimesOut(j)
    \/ \E j \in JobIds : TaskCancelled(j)

Spec == Init /\ [][Next]_vars

(***************************************************************************)
(* Jobs that differ in priority and in being submitted for now or for the  *)
(* next hour; their handlers return.                                       *)
(***************************************************************************)
PriorityInputs ==
    { JobInput(p, 0, 1, None, None, Returns) : p \in {LOW, NORMAL, CRITICAL} }

NextPriority ==
    \/ StartCoordinator
    \/ Submit(PriorityInputs, MaxPrioJobs)
    \/ \E j \in JobIds : CancelPending(j)
    \/ Tick
    \/ \E j \in JobIds : StartTask(j)
    \/ \E j \in JobIds : HandlerReturns(j)

SpecPriority == Init /\ [][NextPriority]_vars

(***************************************************************************)
(* Jobs submitted for now or for the next hour, and the clock moving by    *)
(* hours; their handlers return.                                           *)
(***************************************************************************)
ScheduleInputs ==
    { JobInput(NORMAL, 0, 1, s, None, Returns) : s \in {None, Some(now + 1)} }
    \cup
    { JobInput(HIGH, 0, 1, None, None, Returns) }

NextSchedule ==
    \/ StartCoordinator
    \/ Submit(ScheduleInputs, MaxJobs)
    \/ \E j \in JobIds : CancelPending(j)
    \/ Tick
    \/ \E j \in JobIds : StartTask(j)
    \/ \E j \in JobIds : HandlerReturns(j)
    \/ AdvanceClock(1)

SpecSchedule == Init /\ [][NextSchedule]_vars

(***************************************************************************)
(* The queue over days: the clock moves by the retention window.           *)
(***************************************************************************)
RetentionInputs ==
    { JobInput(NORMAL, 0, 1, None, None, Returns) }
    \cup
    { JobInput(NORMAL, mr, 1, None, None, Raises(2)) : mr \in {0, 1} }

NextRetention ==
    \/ StartCoordinator
    \/ Submit(RetentionInputs, MaxJobs)
    \/ \E j \in JobIds : CancelRunning(j)
    \/ Tick
    \/ \E j \in JobIds : StartTask(j)
    \/ \E j \in JobIds : HandlerReturns(j)
    \/ \E j \in JobIds : HandlerRaises(j)
    \/ \E j \in JobIds : TaskCancelled(j)
    \/ AdvanceClock(RetentionHours)

SpecRetention == Init /\ [][NextRetention]_vars

(***************************************************************************)
(* The queue left alone with its jobs: nobody cancels, the coordinator     *)
(* keeps ticking, the event loop runs every task that is ready and every   *)
(* handler terminates.  retry_delay is 0, so a retry is due at once.       *)
(***************************************************************************)
MaxRetries == 2

RetryInputs ==
    { JobInput(NORMAL, mr, 0, None, None, Raises(k)) :
        mr \in 0..MaxRetries, k \in 0..(MaxRetries + 1) }

NextRetry ==
    \/ StartCoordinator
    \/ Submit(RetryInputs, MaxJobs)
    \/ Tick
    \/ \E j \in JobIds : StartTask(j)
    \/ \E j \in JobIds : HandlerReturns(j)
    \/ \E j \in JobIds : HandlerRaises(j)

FairSpec ==
    /\ Init
    /\ [][NextRetry]_vars
    /\ WF_vars(StartCoordinator)
    /\ WF_vars(Tick)
    /\ \A j \in 1..MaxJobs :
          /\ WF_vars(StartTask(j))
          /\ WF_vars(HandlerReturns(j))
          /\ WF_vars(HandlerRaises(j))

(***************************************************************************)
(* The queue of Spec with callers that also cancel jobs that cannot be     *)
(* cancelled and ids the queue has never issued (nextId is one).           *)
(***************************************************************************)
NextCancel ==
    \/ Next
    \/ \E j \in JobIds \cup {nextId} : CancelRejected(j)

SpecCancel == Init /\ [][NextCancel]_vars

(***************************************************************************)
(* Coroutine handlers and plain functions side by side, and callers that   *)
(* cancel running jobs: a plain function that was cancelled or has timed   *)
(* out keeps its thread.                                                   *)
(***************************************************************************)
PoolInputs ==
    { JobInput(NORMAL, 0, 1, None, None, f) : f \in {Returns, Sync(Returns)} }
    \cup
    { JobInput(NORMAL, 0, 1, None, Some(1), Sync(Slow(1))) }

NextPool ==
    \/ StartCoordinator
    \/ Submit(PoolInputs, MaxJobs)
    \/ \E j \in JobIds : CancelRunning(j)
    \/ Tick
    \/ \E j \in JobIds : StartTask(j)
    \/ \E j \in JobIds : HandlerReturns(j)
    \/ \E j \in JobIds : HandlerTimesOut(j)
    \/ \E j \in JobIds : TaskCancelled(j)
    \/ \E j \in JobIds : ThreadFinishes(j)

SpecPool == Init /\ [][NextPool]_vars

(***************************************************************************)
(* Callers that pass add_job a negative max_retries beside valid ones.     *)
(***************************************************************************)
ValidInput(i) == i.max_retries >= 0

UncheckedInputs ==
    { JobInput(NORMAL, mr, 1, None, None, f) :
        mr \in {-1, 0, 1}, f \in {Returns, Raises(1)} }

NextUnchecked ==
    \/ StartCoordinator
    \/ Submit(UncheckedInputs, MaxJobs)
    \/ Tick
    \/ \E j \in JobIds : StartTask(j)
    \/ \E j \in JobIds : HandlerReturns(j)
    \/ \E j \in JobIds : HandlerRaises(j)

SpecUnchecked == Init /\ [][NextUnchecked]_vars

(***************************************************************************)
(* Jobs submitted without scheduled_at, for the current hour or for the    *)
(* next one, and the clock moving by hours; their handlers return.         *)
(***************************************************************************)
GateInputs ==
    { JobInput(NORMAL, 0, 1, s, None, Returns) :
        s \in {None, Some(now), Some(now + 1)} }

NextGate ==
    \/ StartCoordinator
    \/ Submit(GateInputs, MaxJobs)
    \/ Tick
    \/ \E j \in JobIds : StartTask(j)
    \/ \E j \in JobIds : HandlerReturns(j)
    \/ AdvanceClock(1)

SpecGate == Init /\ [][NextGate]_vars

(***************************************************************************)
(* JobManager.  A registered JobQueue is reduced to its name, its identity *)
(* (obj, the number of the JobQueue object in order of construction), its  *)
(* max_workers, the number of jobs added to it (total_jobs) and its        *)
(* _shutdown flag (down).  The outcome of a call is a record: the kind of  *)
(* value returned or exception raised, and the identity of the queue       *)
(* returned (0 if none).                                                   *)
(***************************************************************************)
DefaultMaxWorkers == 4

queueVars == << max_workers, jobs, queue, running, ready, stats, nextId, now,
                calls, execOrder, cancelledPending, shutdown, threads, work,
                effects, ret >>

Returned(obj) == Some([ kind |-> "queue", obj |-> obj ])
ReturnedNone == Some([ kind |-> "none", obj |-> 0 ])
Raised(kind) == Some([ kind |-> kind, obj |-> 0 ])

\* dict lookup: the position of the entry of name, 0 if there is none
IndexOf(qs, name) ==
    IF \E k \in 1..Len(qs) : qs[k].name = name
    THEN CHOOSE k \in 1..Len(qs) : qs[k].name = name
    ELSE 0

Registered(qs, name) == IndexOf(qs, name) # 0

\* variant: only a negative number of threads is refused
ExecutorRejectsNegative(n) == n < 0

\* ThreadPoolExecutor(max_workers=n) in JobQueue.__init__ raises ValueError
\* for n <= 0
ExecutorRejects(n) == n <= 0

\* variant: a registered name is given the new queue
CreateQueueReplaces(name, n) ==
    /\ IF ExecutorRejects(n)
       THEN /\ mgrRet' = Raised("ValueError: max_workers")
            /\ queues' = queues
       ELSE /\ queues' =
                 IF Registered(queues, name)
                 THEN [ queues EXCEPT ![IndexOf(queues, name)] =
                          [ name        |-> name,
                            obj         |-> Len(queues) + 1,
                            max_workers |-> n,
                            total_jobs  |-> 0,
                            down        |-> FALSE ] ]
                 ELSE Append(queues, [ name        |-> name,
                                       obj         |-> Len(queues) + 1,
                                       max_workers |-> n,
                                       total_jobs  |-> 0,
                                       down        |-> FALSE ])
            /\ mgrRet' = Returned(Len(queues) + 1)
    /\ UNCHANGED << tasks, mgrPc >>
    /\ UNCHANGED << queueVars, coordinators >>

CreateQueue(name, n) ==
    /\ IF Registered(queues, name)
       THEN /\ mgrRet' = Raised("ValueError: already exists")
            /\ queues' = queues
       ELSE IF ExecutorRejects(n)
       THEN /\ mgrRet' = Raised("ValueError: max_workers")
            /\ queues' = queues
       ELSE /\ queues' = Append(queues, [ name        |-> name,
                                          obj         |-> Len(queues) + 1,
                                          max_workers |-> n,
                                          total_jobs  |-> 0,
                                          down        |-> FALSE ])
            /\ mgrRet' = Returned(Len(queues) + 1)
    /\ UNCHANGED << tasks, mgrPc >>
    /\ UNCHANGED << queueVars, coordinators >>

GetQueue(name) ==
    /\ mgrRet' = IF Registered(queues, name)
                 THEN Returned(queues[IndexOf(queues, name)].obj)
                 ELSE ReturnedNone
    /\ UNCHANGED << queues, tasks, mgrPc >>
    /\ UNCHANGED << queueVars, coordinators >>

\* variant: a new queue is made on every call
GetDefaultQueueAlwaysCreates ==
    /\ queues' = Append(queues, [ name        |-> "default",
                                  obj         |-> Len(queues) + 1,
                                  max_workers |-> DefaultMaxWorkers,
                                  total_jobs  |-> 0,
                                  down        |-> FALSE ])
    /\ mgrRet' = Returned(Len(queues) + 1)
    /\ UNCHANGED << tasks, mgrPc >>
    /\ UNCHANGED << queueVars, coordinators >>

GetDefaultQueue ==
    /\ IF ~ Registered(queues, "default")
       THEN queues' = Append(queues, [ name        |-> "default",
                                       obj         |-> Len(queues) + 1,
                                       max_workers |-> DefaultMaxWorkers,
                                       total_jobs  |-> 0,
                                       down        |-> FALSE ])
       ELSE queues' = queues
    /\ mgrRet' = Returned(queues'[IndexOf(queues', "default")].obj)
    /\ UNCHANGED << tasks, mgrPc >>
    /\ UNCHANGED << queueVars, coordinators >>

\* the module's add_job(name, func, queue_name=...): the queue is made on
\* first use, then JobQueue.add_job counts the job
ModuleAddJob(name) ==
    /\ LET qs == IF Registered(queues, name) THEN queues
                 ELSE Append(queues, [ name        |-> name,
                                       obj         |-> Len(queues) + 1,
                                       max_workers |-> DefaultMaxWorkers,
                                       total_jobs  |-> 0,
                                       down        |-> FALSE ])
           k == IndexOf(qs, name)
       IN  /\ qs[k].total_jobs < MaxJobs
           /\ queues' = [ qs EXCEPT ![k].total_jobs = @ + 1 ]
           /\ mgrRet' = Some([ kind |-> "id", obj |-> qs[k].obj ])
    /\ UNCHANGED << tasks, mgrPc >>
    /\ UNCHANGED << queueVars, coordinators >>

\* the loop of a coordinator created for the queue of this name is entered
Starts(qs, name) ==
    /\ Registered(qs, name)
    /\ ~ qs[IndexOf(qs, name)].down

\* start_all_queues: one more coordinator task per registered queue, the
\* task of an earlier call going on beside it; the coordinator of a queue
\* that was shut down leaves its loop at once.  The JobQueue that is
\* modelled in full is the one a manager holds under the name "default".
StartAllQueues ==
    /\ Starts(queues, "default") => coordinators < MaxCoordinators
    /\ coordinators' = IF Starts(queues, "default") THEN coordinators + 1
                       ELSE coordinators
    /\ tasks' = [ name \in DOMAIN tasks \cup { queues[k].name : k \in 1..Len(queues) } |->
                    IF Registered(queues, name)
                    THEN IF queues[IndexOf(queues, name)].down
                         THEN "finished" ELSE "running"
                    ELSE tasks[name] ]
    /\ mgrRet' = Some([ kind |-> "ok", obj |-> 0 ])
    /\ UNCHANGED << queues, mgrPc >>
    /\ UNCHANGED queueVars

(***************************************************************************)
(* JobManager.shutdown_all_queues: the for loop over _queues.items(), one  *)
(* step per awaited queue.shutdown(), then the cancellation of the         *)
(* coordinator tasks and the gather.  mgrPc holds the state of the call,   *)
(* the position of the loop and the size of the dict when the loop began   *)
(* (a dict iterator raises RuntimeError once the size differs).  An        *)
(* exception in the loop leaves shutdown_all_queues at once.               *)
(***************************************************************************)
ShutdownAllBegins ==
    /\ mgrPc.state = "idle"
    /\ mgrPc' = [ state |-> "queues", i |-> 1, size |-> Len(queues) ]
    /\ UNCHANGED << queues, tasks, mgrRet >>
    /\ UNCHANGED << queueVars, coordinators >>

\* queue.shutdown() of the queue the loop is at returns
QueueShutdownReturns ==
    /\ mgrPc.state = "queues"
    /\ mgrPc.i <= mgrPc.size
    /\ Len(queues) = mgrPc.size
    /\ queues' = [ queues EXCEPT ![mgrPc.i].down = TRUE ]
    /\ mgrPc' = [ mgrPc EXCEPT !.i = @ + 1 ]
    /\ UNCHANGED << tasks, mgrRet >>
    /\ UNCHANGED << queueVars, coordinators >>

\* queue.shutdown() of the queue the loop is at raises at its await, after
\* it has set the queue's flag
QueueShutdownRaises ==
    /\ mgrPc.state = "queues"
    /\ mgrPc.i <= mgrPc.size
    /\ Len(queues) = mgrPc.size
    /\ queues' = [ queues EXCEPT ![mgrPc.i].down = TRUE ]
    /\ mgrPc' = [ mgrPc EXCEPT !.state = "raised" ]
    /\ mgrRet' = Raised("raised by queue.shutdown")
    /\ UNCHANGED tasks
    /\ UNCHANGED << queueVars, coordinators >>

\* a queue was registered while the loop was suspended
IterationRaises ==
    /\ mgrPc.state = "queues"
    /\ Len(queues) # mgrPc.size
    /\ mgrPc' = [ mgrPc EXCEPT !.state = "raised" ]
    /\ mgrRet' = Raised("RuntimeError: dictionary changed size")
    /\ UNCHANGED << queues, tasks >>
    /\ UNCHANGED << queueVars, coordinators >>

\* the loop is through: every coordinator task is cancelled and awaited
ShutdownAllReturns ==
    /\ mgrPc.state = "queues"
    /\ mgrPc.i > mgrPc.size
    /\ Len(queues) = mgrPc.size
    /\ tasks' = [ name \in DOMAIN tasks |->
                    IF tasks[name] = "running" THEN "cancelled" ELSE tasks[name] ]
    /\ mgrPc' = [ mgrPc EXCEPT !.state = "done" ]
    /\ mgrRet' = Some([ kind |-> "ok", obj |-> 0 ])
    /\ UNCHANGED queues
    /\ UNCHANGED << queueVars, coordinators >>

(***************************************************************************)
(* The manager under every interleaving of its calls.                      *)
(***************************************************************************)
QueueNames == { "default", "reports" }
WorkerArgs == { -1, 0, 1 }

NextManager ==
    \/ \E name \in QueueNames, n \in WorkerArgs : CreateQueue(name, n)
    \/ \E name \in QueueNames : GetQueue(name)
    \/ GetDefaultQueue
    \/ \E name \in QueueNames : ModuleAddJob(name)
    \/ StartAllQueues
    \/ ShutdownAllBegins
    \/ QueueShutdownReturns
    \/ QueueShutdownRaises
    \/ IterationRaises
    \/ ShutdownAllReturns

SpecManager == Init /\ [][NextManager]_vars

(***************************************************************************)
(* The queue being shut down while jobs wait, are dispatched and run, and  *)
(* while callers keep adding jobs.                                         *)
(***************************************************************************)
ShutdownInputs ==
    { JobInput(NORMAL, 0, 1, None, None, f) : f \in {Returns, Sync(Returns)} }

NextShutdown ==
    \/ StartCoordinator
    \/ Submit(ShutdownInputs, MaxJobs)
    \/ Tick
    \/ \E j \in JobIds : StartTask(j)
    \/ \E j \in JobIds : TaskNeverStarts(j)
    \/ \E j \in JobIds : HandlerReturns(j)
    \/ \E j \in JobIds : TaskCancelled(j)
    \/ \E j \in JobIds : ThreadFinishes(j)
    \/ ShutdownBegins
    \/ ShutdownReturns

SpecShutdown == Init /\ [][NextShutdown]_vars

(***************************************************************************)
(* Several callers on the event loop: they add jobs of two priorities,     *)
(* cancel waiting and running jobs and ask for cancellations that are      *)
(* refused, in any order with the coordinator and the tasks.  The reading  *)
(* calls get_job_status and get_queue_stats are functions of the state.    *)
(***************************************************************************)
GetJobStatus(job_id) ==
    IF job_id \in DOMAIN jobs THEN Some(jobs[job_id].status) ELSE None

GetQueueStats ==
    [ max_workers    |-> max_workers,
      active_workers |-> Cardinality(DOMAIN running),
      queued_jobs    |-> Len(queue),
      total_jobs     |-> Cardinality(DOMAIN jobs),
      stats          |-> stats ]

CallerInputs ==
    { JobInput(p, 0, 1, None, None, Returns) : p \in {LOW, HIGH} }

NextCallers ==
    \/ StartCoordinator
    \/ Submit(CallerInputs, MaxPrioJobs)
    \/ \E j \in JobIds : CancelPending(j)
    \/ \E j \in JobIds : CancelRunning(j)
    \/ \E j \in JobIds \cup {nextId} : CancelRejected(j)
    \/ Tick
    \/ \E j \in JobIds : StartTask(j)
    \/ \E j \in JobIds : HandlerReturns(j)
    \/ \E j \in JobIds : TaskCancelled(j)

SpecCallers == Init /\ [][NextCallers]_vars

(***************************************************************************)
(* Jobs of two priorities, submitted for now or for the next hour, callers *)
(* that cancel waiting jobs, and the clock moving by hours: jobs enter the *)
(* dispatch list by add_job and by the promotion pass.                     *)
(***************************************************************************)
PromotionInputs ==
    { JobInput(HIGH, 0, 1, s, None, Returns) : s \in {None, Some(now + 1)} }
    \cup
    { JobInput(NORMAL, 0, 1, None, None, Returns) }

NextPromotion ==
    \/ StartCoordinator
    \/ Submit(PromotionInputs, MaxJobs)
    \/ \E j \in JobIds : CancelPending(j)
    \/ Tick
    \/ \E j \in JobIds : StartTask(j)
    \/ \E j \in JobIds : HandlerReturns(j)
    \/ AdvanceClock(1)

SpecPromotion == Init /\ [][NextPromotion]_vars

(***************************************************************************)
(* Jobs whose handlers always raise, with no or one retry and a retry      *)
(* delay of one or two hours, and the clock moving by hours.               *)
(***************************************************************************)
BackoffInputs ==
    { JobInput(NORMAL, mr, rd, None, None, Raises(2)) :
        mr \in {0, 1}, rd \in {1, 2} }

NextBackoff ==
    \/ StartCoordinator
    \/ Submit(BackoffInputs, MaxJobs)
    \/ Tick
    \/ \E j \in JobIds : StartTask(j)
    \/ \E j \in JobIds : HandlerRaises(j)
    \/ AdvanceClock(1)

SpecBackoff == Init /\ [][NextBackoff]_vars

(***************************************************************************)
(* A manager that holds the queue under the name "default" and callers     *)
(* that call start_all_queues more than once; jobs are submitted without   *)
(* scheduled_at or for the current hour, and their handlers return.  The   *)
(* running set holds one task per job id, as _running does: with           *)
(* max_workers = 1 a job that is put back on the dispatch list while it is *)
(* in the running set is dispatched again only after its task has ended.   *)
(***************************************************************************)
RestartInputs ==
    { JobInput(NORMAL, 0, 1, s, None, Returns) : s \in {None, Some(now)} }

NextRestart ==
    \/ CreateQueue("default", max_workers)
    \/ StartAllQueues
    \/ Registered(queues, "default") /\ Submit(RestartInputs, MaxJobs)
    \/ Tick
    \/ \E j \in JobIds : StartTask(j)
    \/ \E j \in JobIds : HandlerReturns(j)

SpecRestart == Init /\ [][NextRestart]_vars

(***************************************************************************)
(* The application: start_all_queues is called when the manager has no     *)
(* queue or after a caller has asked for the default queue, which          *)
(* get_default_queue makes on first use with the default number of         *)
(* workers.  Callers submit jobs to the default queue; nobody cancels, the *)
(* coordinators that exist keep ticking, the event loop runs every task    *)
(* that is ready and every handler returns.                                *)
(***************************************************************************)
InitDefaultQueue ==
    /\ max_workers = DefaultMaxWorkers
    /\ Constructed

LazyInputs ==
    { JobInput(p, 0, 1, None, None, Returns) : p \in {NORMAL, HIGH} }

NextLazy ==
    \/ GetDefaultQueue
    \/ StartAllQueues
    \/ Registered(queues, "default") /\ Submit(LazyInputs, MaxJobs)
    \/ Tick
    \/ \E j \in JobIds : StartTask(j)
    \/ \E j \in JobIds : HandlerReturns(j)

FairLazySpec ==
    /\ InitDefaultQueue
    /\ [][NextLazy]_vars
    /\ WF_vars(Tick)
    /\ \A j \in 1..MaxJobs :
          /\ WF_vars(StartTask(j))
          /\ WF_vars(HandlerReturns(j))

(***************************************************************************)
(* Callers on the event loop and callers in synchronous code, where no     *)
(* event loop is running, submit jobs of two priorities.                   *)
(***************************************************************************)
OutsideInputs ==
    { JobInput(p, 0, 1, None, None, Returns) : p \in {NORMAL, HIGH} }

SubmitOutsideLoop(inputs, n) ==
    /\ nextId <= n
    /\ \E i \in inputs :
          AddJobOutsideLoop(i.priority, i.max_retries, i.retry_delay,
                            i.scheduled_at, i.timeout, i.func)

NextOutside ==
    \/ StartCoordinator
    \/ Submit(OutsideInputs, MaxPrioJobs)
    \/ SubmitOutsideLoop(OutsideInputs, MaxPrioJobs)
    \/ Tick
    \/ \E j \in JobIds : StartTask(j)
    \/ \E j \in JobIds : HandlerReturns(j)

SpecOutside == Init /\ [][NextOutside]_vars

(***************************************************************************)
(* Properties.                                                             *)
(***************************************************************************)
StatusCount(S) == Cardinality({ j \in DOMAIN jobs : jobs[j].status \in S })

\* the position of a job id in a sequence without repetitions, 0 if absent
Pos(seq, id) ==
    IF id \in Range(seq) THEN CHOOSE i \in 1..Len(seq) : seq[i] = id ELSE 0

\* C1: the number of jobs whose status is Running never exceeds max_workers.
RunningBound == StatusCount({RUNNING}) <= max_workers

\* every worker slot is taken by a Running job and another job waits
WitnessRunningBound ==
    /\ StatusCount({RUNNING}) = max_workers
    /\ queue # << >>

\* C2: once cancel_job has cancelled a Pending job, the job is Cancelled and
\* absent from the dispatch list, and its handler is not invoked any more.
PendingCancelEffective ==
    [][ \A j \in cancelledPending' :
          /\ j \in DOMAIN jobs' =>
                jobs'[j].status = CANCELLED /\ j \notin Range(queue')
          /\ j \in cancelledPending => calls'[j] = calls[j] ]_vars

\* C3: a job whose handler fails on its first k <= max_retries attempts and
\* then succeeds eventually is Completed with retry_count = k.
RetryConvergence ==
    \A j \in 1..MaxJobs :
        (j \in DOMAIN jobs /\ jobs[j].func.fails <= jobs[j].max_retries)
        ~> ( /\ j \in DOMAIN jobs
             /\ jobs[j].status = COMPLETED
             /\ jobs[j].retry_count = jobs[j].func.fails )

\* C4: a job whose handler fails on every attempt eventually is Failed with
\* retry_count = max_retries + 1, completed_at and its error set, and counted
\* in failed_jobs.
RetryExhaustion ==
    \A j \in 1..MaxJobs :
        (j \in DOMAIN jobs /\ jobs[j].func.fails > jobs[j].max_retries)
        ~> ( /\ j \in DOMAIN jobs
             /\ jobs[j].status = FAILED
             /\ jobs[j].retry_count = jobs[j].max_retries + 1
             /\ jobs[j].completed_at # None
             /\ jobs[j].error # None
             /\ stats.failed_jobs = StatusCount({FAILED}) )

\* C5: every change of a job's status follows an edge of the lifecycle; a
\* Completed, Failed or Cancelled job keeps its status.
LifecycleEdge ==
    { << PENDING, RUNNING >>, << PENDING, CANCELLED >>,
      << RUNNING, COMPLETED >>, << RUNNING, FAILED >>,
      << RUNNING, RETRYING >>, << RUNNING, CANCELLED >>,
      << RETRYING, PENDING >> }

LifecycleEdges ==
    [][ \A j \in DOMAIN jobs \cap DOMAIN jobs' :
          jobs'[j].status # jobs[j].status =>
              << jobs[j].status, jobs'[j].status >> \in LifecycleEdge ]_vars

\* C6: total counts the add_job calls, each terminal counter counts the jobs
\* in that status, and every job is counted once (no job has been removed by
\* the retention pass when the clock stands still).
CountersConsistent ==
    /\ stats.total_jobs = nextId - 1
    /\ stats.completed_jobs = StatusCount({COMPLETED})
    /\ stats.failed_jobs = StatusCount({FAILED})
    /\ stats.cancelled_jobs = StatusCount({CANCELLED})
    /\ stats.total_jobs = stats.completed_jobs + stats.failed_jobs
                            + stats.cancelled_jobs
                            + StatusCount({PENDING, RUNNING, RETRYING})

\* C7: whenever the dispatch pass starts a job, no job then waiting in the
\* dispatch list (left there, or started later in the same pass) has a
\* strictly higher priority.
DispatchByPriority ==
    [][ \A i \in 1..Len(ready') :
          ready'[i] \notin DOMAIN running =>
            \A k \in Range(queue') \cup { ready'[m] : m \in (i + 1)..Len(ready') } :
                jobs[k].priority <= jobs[ready'[i]].priority ]_vars

\* submitted as Low, Critical, Normal with one worker, started as Critical,
\* Normal, Low
WitnessDispatchByPriority ==
    /\ max_workers = 1
    /\ nextId = 4
    /\ DOMAIN jobs = {1, 2, 3}
    /\ jobs[1].priority = LOW
    /\ jobs[2].priority = CRITICAL
    /\ jobs[3].priority = NORMAL
    /\ execOrder = << 2, 3, 1 >>

\* C8: of two jobs of equal priority, both submitted without scheduled_at,
\* the one submitted first starts executing first, unless it was cancelled
\* while waiting.
FifoAmongEqual ==
    /\ DOMAIN jobs = JobIds
    /\ \A a, b \in JobIds :
          ( /\ a < b
            /\ jobs[a].priority = jobs[b].priority
            /\ jobs[a].scheduled_at = None
            /\ jobs[b].scheduled_at = None
            /\ b \in Range(execOrder) )
          => \/ a \in cancelledPending
             \/ (a \in Range(execOrder) /\ Pos(execOrder, a) < Pos(execOrder, b))

\* two such jobs have both started
WitnessFifoAmongEqual ==
    \E a, b \in JobIds :
        /\ a < b
        /\ jobs[a].priority = jobs[b].priority
        /\ jobs[a].scheduled_at = None
        /\ jobs[b].scheduled_at = None
        /\ a \notin cancelledPending
        /\ a \in Range(execOrder)
        /\ b \in Range(execOrder)

\* C9: a timeout is handled like a handler error (retry_count + 1, then
\* Retrying if retry_count <= max_retries, else Failed), and with
\* max_retries = 0 the job is Failed with an error that identifies a timeout.
\* An empty text, or the text of a handler's own exception, identifies none.
IdentifiesTimeout(error) ==
    /\ error # None
    /\ error[1] # ""
    /\ error[1] # StrHandlerError

TimeoutAsFailure ==
    [][ \A j \in DOMAIN jobs :
          HandlerTimesOut(j) =>
            /\ jobs'[j].retry_count = jobs[j].retry_count + 1
            /\ jobs'[j].status =
                  IF jobs'[j].retry_count <= jobs[j].max_retries
                  THEN RETRYING ELSE FAILED
            /\ jobs[j].max_retries = 0 =>
                  jobs'[j].status = FAILED /\ IdentifiesTimeout(jobs'[j].error) ]_vars

\* C10: a coordinator pass removes from the job map exactly the terminal
\* jobs whose completed_at is more than the retention window ago and leaves
\* every other job as it was; no other step removes a job.
OlderThanRetention(job) ==
    /\ job.status \in Terminal
    /\ job.completed_at # None
    /\ now - job.completed_at[1] > RetentionHours

RetentionCleanup ==
    [][ /\ { j \in DOMAIN jobs : ~ OlderThanRetention(jobs[j]) }
              \subseteq (DOMAIN jobs')
        /\ Tick =>
              /\ DOMAIN jobs' =
                    { j \in DOMAIN jobs : ~ OlderThanRetention(jobs[j]) }
              /\ \A j \in DOMAIN jobs' : jobs'[j] = jobs[j] ]_vars

\* a job has been removed, while a terminal job whose completed_at is exactly
\* the retention window ago is still there
WitnessRetentionCleanup ==
    /\ \E j \in JobIds : j \notin DOMAIN jobs
    /\ \E j \in DOMAIN jobs :
          /\ jobs[j].status \in Terminal
          /\ jobs[j].completed_at # None
          /\ now - jobs[j].completed_at[1] = RetentionHours

\* C11: a cancel_job call for an id that is not in the job map, or for a job
\* that is Completed, Failed or Cancelled, returns False and leaves the job
\* map, the dispatch list, the running set and the counters as they were.
CancelRejectedNoEffect ==
    [][ \A j \in JobIds \cup {nextId} :
          ( /\ j \notin DOMAIN jobs \/ jobs[j].status \in Terminal
            /\ CancelJob(j) )
          => /\ ret' = Some(FALSE)
             /\ UNCHANGED << jobs, queue, running, stats >> ]_vars

\* cancel_job has just returned False while a Cancelled job, whose task is
\* still in the running set, and a job in the dispatch list exist
WitnessCancelRejectedNoEffect ==
    /\ ret = Some(FALSE)
    /\ \E j \in DOMAIN jobs : jobs[j].status = CANCELLED /\ j \in DOMAIN running
    /\ queue # << >>

InvalidInputRejected ==
    [][ \A i \in UncheckedInputs :
          ( /\ ~ ValidInput(i)
            /\ AddJob(i.priority, i.max_retries, i.retry_delay,
                      i.scheduled_at, i.timeout, i.func) )
          => UNCHANGED << jobs, queue, stats, nextId >> ]_vars

\* C14: when add_job returns, the new job is Pending and is in the dispatch
\* list exactly if its scheduled_at is unset or not later than now, and no
\* handler has been invoked by the call; no job starts executing before its
\* scheduled_at.
SchedulingGate ==
    [][ /\ nextId' = nextId + 1 =>
              /\ jobs'[nextId].status = PENDING
              /\ nextId \in Range(queue') <=>
                    \/ jobs'[nextId].scheduled_at = None
                    \/ jobs'[nextId].scheduled_at[1] <= now
              /\ calls'[nextId] = 0
              /\ \A j \in JobIds : calls'[j] = calls[j]
        /\ \A j \in JobIds :
              ( /\ calls'[j] > calls[j]
                /\ jobs[j].scheduled_at # None )
              => jobs[j].scheduled_at[1] <= now ]_vars

\* a job submitted for a later hour has started, and another one, not yet
\* due, is Pending outside the dispatch list
WitnessSchedulingGate ==
    \E a, b \in DOMAIN jobs :
        /\ jobs[a].scheduled_at # None
        /\ jobs[a].started_at # None
        /\ jobs[a].scheduled_at[1] > 0
        /\ jobs[b].scheduled_at # None
        /\ jobs[b].scheduled_at[1] > now
        /\ jobs[b].status = PENDING
        /\ b \notin Range(queue)

\* C15: create_queue with a name that is registered fails with "already
\* exists" and leaves the registry as it was: the name still maps to the
\* same queue object, with its jobs and counters.
DuplicateQueueRejected ==
    [][ \A name \in QueueNames, n \in WorkerArgs :
          ( /\ \E k \in 1..Len(queues) : queues[k].name = name
            /\ CreateQueue(name, n) )
          => /\ mgrRet' = Raised("ValueError: already exists")
             /\ queues' = queues ]_vars

\* create_queue has just failed so, and the registry holds a queue with jobs
WitnessDuplicateQueueRejected ==
    /\ mgrRet = Raised("ValueError: already exists")
    /\ \E k \in 1..Len(queues) : queues[k].total_jobs > 0

\* C16: create_queue with max_workers <= 0 fails with an error and registers
\* no queue.
NonPositiveWorkersRejected ==
    [][ \A name \in QueueNames, n \in WorkerArgs :
          (n <= 0 /\ CreateQueue(name, n))
          => /\ mgrRet' # None
             /\ mgrRet'[1].kind \in { "ValueError: max_workers",
                                      "ValueError: already exists" }
             /\ queues' = queues ]_vars

\* create_queue has just failed on its max_workers, for a name that is not
\* registered, while another queue is
WitnessNonPositiveWorkersRejected ==
    /\ mgrRet = Raised("ValueError: max_workers")
    /\ Len(queues) = 1

\* C17: get_default_queue returns the queue registered as "default", which
\* it creates if there is none and leaves alone otherwise; there is never
\* more than one queue of that name, it stays the same object for good, and
\* get_queue("default") returns that object too.
DefaultEntries(qs) == { k \in 1..Len(qs) : qs[k].name = "default" }

DefaultQueueIdempotent ==
    [][ /\ Cardinality(DefaultEntries(queues')) <= 1
        /\ \A k \in DefaultEntries(queues) :
              /\ k \in DefaultEntries(queues')
              /\ queues'[k].obj = queues[k].obj
        /\ GetDefaultQueue =>
              /\ \E k \in DefaultEntries(queues') :
                    mgrRet' = Returned(queues'[k].obj)
              /\ DefaultEntries(queues) # {} => queues' = queues
        /\ (GetQueue("default") /\ DefaultEntries(queues) # {}) =>
              \E k \in DefaultEntries(queues) :
                    mgrRet' = Returned(queues[k].obj) ]_vars

\* the default queue, registered after another queue, has been returned and
\* holds jobs
WitnessDefaultQueueIdempotent ==
    /\ Len(queues) = 2
    /\ queues[2].name = "default"
    /\ queues[2].total_jobs > 0
    /\ mgrRet = Returned(queues[2].obj)

\* C20: when shutdown_all_queues ends, by returning or by raising, every
\* queue that was registered when it was called has been shut down and no
\* coordinator task is left running.
ShutdownAllComplete ==
    [][ ( /\ mgrPc.state = "queues"
          /\ mgrPc'.state \in { "done", "raised" } )
        => /\ \A k \in 1..mgrPc.size : queues'[k].down
           /\ \A name \in DOMAIN tasks' : tasks'[name] # "running" ]_vars

\* C18: from the moment shutdown() has been called, no job goes from Pending
\* to Running, whatever is added later and however many slots are free.
NoStartAfterShutdown ==
    [][ shutdown # "no" =>
          \A j \in DOMAIN jobs :
              ~ (jobs[j].status = PENDING /\ jobs'[j].status = RUNNING) ]_vars

\* shutdown() has returned, a job waits in the dispatch list and every slot
\* is free
WitnessNoStartAfterShutdown ==
    /\ shutdown = "returned"
    /\ queue # << >>
    /\ running = << >>
    /\ execOrder # << >>

\* C19: when shutdown() has returned, the running set is empty and no job is
\* Running.
ShutdownResolvesAll ==
    shutdown = "returned" =>
        /\ running = << >>
        /\ StatusCount({RUNNING}) = 0

\* C21: when a handler raises, the exception ends in the job's own task: the
\* step changes the record of that job and the counters only (failed_jobs,
\* and only if the job is Failed), releases the job's slot, leaves every
\* other job, the other tasks and the dispatch list as they were, and the
\* coordinator is as free to run its next pass as before.
FaultIsolation ==
    [][ \A j \in DOMAIN jobs :
          HandlerRaises(j) =>
            /\ jobs'[j].error = Some(StrHandlerError)
            /\ jobs'[j].status \in {RETRYING, FAILED}
            /\ DOMAIN jobs' = DOMAIN jobs
            /\ \A k \in DOMAIN jobs \ {j} : jobs'[k] = jobs[k]
            /\ DOMAIN running' = DOMAIN running \ {j}
            /\ \A k \in DOMAIN running' : running'[k] = running[k]
            /\ queue' = queue
            /\ ready' = ready
            /\ shutdown' = shutdown
            /\ stats' = IF jobs'[j].status = FAILED
                        THEN [ stats EXCEPT !.failed_jobs = @ + 1 ]
                        ELSE stats ]_vars

\* with one worker: a job has Failed on its handler's exception, and a job
\* dispatched by a later pass has Completed
WitnessFaultIsolation ==
    /\ max_workers = 1
    /\ \E a, b \in DOMAIN jobs :
          /\ jobs[a].status = FAILED
          /\ jobs[a].error = Some(StrHandlerError)
          /\ execOrder = << a, b >>
          /\ jobs[b].status = COMPLETED

\* C22: under every interleaving of the callers with the coordinator, every
\* job submitted is in the job map and answers get_job_status, total_jobs
\* counts every add_job call, no terminal counter is below the number of jobs
\* in its status, and the dispatch list holds known jobs, each once, in
\* non-increasing priority.
ConcurrentCallsSafe ==
    /\ DOMAIN jobs = JobIds
    /\ \A j \in JobIds : GetJobStatus(j) # None
    /\ GetQueueStats.total_jobs = nextId - 1
    /\ GetQueueStats.stats.total_jobs = nextId - 1
    /\ GetQueueStats.stats.completed_jobs >= StatusCount({COMPLETED})
    /\ GetQueueStats.stats.failed_jobs >= StatusCount({FAILED})
    /\ GetQueueStats.stats.cancelled_jobs >= StatusCount({CANCELLED})
    /\ Range(queue) \subseteq DOMAIN jobs
    /\ Cardinality(Range(queue)) = Len(queue)
    /\ \A i, k \in 1..Len(queue) :
          i < k => jobs[queue[i]].priority >= jobs[queue[k]].priority

\* a job was cancelled while Running and its task has not ended yet, and two
\* jobs of different priority wait, submitted in the other order
WitnessConcurrentCallsSafe ==
    /\ \E j \in DOMAIN running : jobs[j].status = CANCELLED
    /\ ret = Some(TRUE)
    /\ \E i, k \in 1..Len(queue) :
          /\ i < k
          /\ queue[i] > queue[k]
          /\ jobs[queue[i]].priority > jobs[queue[k]].priority

\* C23: a cancel_job call for a known job that is Pending, Running or
\* Retrying returns True and leaves the job Cancelled.
NonTerminalCancellable ==
    [][ \A j \in DOMAIN jobs :
          ( /\ jobs[j].status \in {PENDING, RUNNING, RETRYING}
            /\ CancelJob(j) )
          => /\ ret' = Some(TRUE)
             /\ jobs'[j].status = CANCELLED ]_vars

\* C25: no job has both result and error set, and a job that is Pending,
\* Running or Retrying has neither.
ResultErrorExclusive ==
    \A j \in DOMAIN jobs :
        /\ ~ (jobs[j].result # None /\ jobs[j].error # None)
        /\ jobs[j].status \notin Terminal =>
              jobs[j].result = None /\ jobs[j].error = None

\* C28: with the coordinator running and every handler terminating, a
\* Pending job whose scheduled_at is unset or due is eventually started, and
\* every job submitted is eventually Completed, Failed or Cancelled.
Progress ==
    \A j \in 1..MaxJobs :
        /\ ( /\ j \in DOMAIN jobs
             /\ jobs[j].status = PENDING
             /\ jobs[j].scheduled_at = None \/ jobs[j].scheduled_at[1] <= now )
           ~> (j \in Range(execOrder))
        /\ (j \in DOMAIN jobs)
           ~> (j \in DOMAIN jobs /\ jobs[j].status \in Terminal)

\* C29: every Completed, Failed or Cancelled job has completed_at set, which
\* the retention pass needs to remove it.
TerminalHasCompletedAt ==
    \A j \in DOMAIN jobs :
        jobs[j].status \in Terminal => jobs[j].completed_at # None

\* C24: add_job, whatever the priority of the new job, leaves the running
\* set, the tasks and every existing job as they were; and a job enters the
\* running set only in a step that found fewer than max_workers entries
\* there and leaves at most max_workers.
NoPreemption ==
    [][ /\ nextId' = nextId + 1 =>
              /\ running' = running
              /\ ready' = ready
              /\ threads' = threads
              /\ \A j \in DOMAIN jobs : jobs'[j] = jobs[j]
        /\ DOMAIN running' \ DOMAIN running # {} =>
              /\ Cardinality(DOMAIN running) < max_workers
              /\ Cardinality(DOMAIN running') <= max_workers ]_vars

\* with one worker, a Low job is Running while a Critical job, submitted
\* after it had started, waits in the dispatch list
WitnessNoPreemption ==
    /\ max_workers = 1
    /\ \E a, b \in DOMAIN jobs :
          /\ a < b
          /\ jobs[a].priority = LOW
          /\ jobs[a].status = RUNNING
          /\ jobs[b].priority = CRITICAL
          /\ jobs[b].status = PENDING
          /\ b \in Range(queue)
          /\ execOrder = << a >>

\* C26: retry_count is 0 in a new job, changes only when an attempt fails by
\* an exception or a timeout, then by exactly one, and never exceeds
\* max_retries + 1 in a job whose max_retries is not negative.
RetryCountMonotone ==
    [][ /\ nextId' = nextId + 1 => jobs'[nextId].retry_count = 0
        /\ \A j \in DOMAIN jobs \cap DOMAIN jobs' :
              /\ (HandlerRaises(j) \/ HandlerTimesOut(j)) =>
                    jobs'[j].retry_count = jobs[j].retry_count + 1
              /\ jobs'[j].retry_count # jobs[j].retry_count =>
                    /\ HandlerRaises(j) \/ HandlerTimesOut(j)
                    /\ jobs'[j].retry_count = jobs[j].retry_count + 1
              /\ jobs[j].max_retries >= 0 =>
                    jobs'[j].retry_count <= jobs[j].max_retries + 1 ]_vars

\* one job has Failed with retry_count = max_retries + 1 after a timeout,
\* another is Retrying with retry_count = 1 after an exception
WitnessRetryCountMonotone ==
    \E a, b \in DOMAIN jobs :
        /\ jobs[a].status = FAILED
        /\ jobs[a].error = Some(StrTimeoutError)
        /\ jobs[a].retry_count = jobs[a].max_retries + 1
        /\ jobs[b].status = RETRYING
        /\ jobs[b].error = Some(StrHandlerError)
        /\ jobs[b].retry_count = 1

\* C27: after every step the dispatch list is in non-increasing priority;
\* the ids that stay in the list keep their order, an id that enters the
\* list stands behind every id of its priority that was there, and of two
\* ids of one priority that enter in the same pass the one inserted first
\* (the smaller id) stands first.
DispatchListOrdered ==
    [][ /\ \A i, k \in 1..Len(queue') :
              i < k => jobs'[queue'[i]].priority >= jobs'[queue'[k]].priority
        /\ \A a, b \in Range(queue) \cap Range(queue') :
              Pos(queue, a) < Pos(queue, b) => Pos(queue', a) < Pos(queue', b)
        /\ \A x \in Range(queue') \ Range(queue) :
              \A y \in Range(queue') :
                  ( /\ y # x
                    /\ jobs'[y].priority = jobs'[x].priority
                    /\ y \in Range(queue) \/ y < x )
                  => Pos(queue', y) < Pos(queue', x) ]_vars

\* a job waits in front of a job of lower priority that was submitted before
\* it, after the clock has moved
WitnessDispatchListOrdered ==
    /\ Len(queue) = 2
    /\ jobs[queue[1]].priority > jobs[queue[2]].priority
    /\ queue[1] > queue[2]
    /\ now > 0

\* C30: the promotion pass of a coordinator tick leaves the ids of the
\* dispatch list in their order and inserts each due job once, behind every
\* id of the same or a higher priority that is in the list at that moment
\* and before every id of lower priority; the dispatch pass of the tick then
\* takes from the head of that list.
PromotionOrder ==
    [][ Tick =>
          LET q1 == ProcessScheduledJobs(queue, jobs, now, 1)
              new == Range(q1) \ Range(queue)
          IN  /\ Cardinality(Range(q1)) = Len(q1)
              /\ Range(queue) \subseteq Range(q1)
              /\ \A a, b \in Range(queue) :
                    Pos(queue, a) < Pos(queue, b) => Pos(q1, a) < Pos(q1, b)
              /\ \A x \in new :
                    /\ jobs[x].status = PENDING
                    /\ jobs[x].scheduled_at # None
                    /\ jobs[x].scheduled_at[1] <= now
                    /\ \A y \in Range(q1) \ {x} :
                          IF Pos(q1, y) < Pos(q1, x)
                          THEN jobs[y].priority >= jobs[x].priority
                          ELSE \/ jobs[y].priority < jobs[x].priority
                               \/ /\ jobs[y].priority = jobs[x].priority
                                  /\ y \in new
                                  /\ y > x
              /\ Len(queue') <= Len(q1)
              /\ queue' = SubSeq(q1, Len(q1) - Len(queue') + 1, Len(q1)) ]_vars

\* a job submitted for a later hour was promoted behind a waiting job of its
\* priority that was submitted after it, and started after that one
WitnessPromotionOrder ==
    \E a, b \in DOMAIN jobs :
        /\ a < b
        /\ jobs[a].priority = jobs[b].priority
        /\ jobs[a].scheduled_at # None
        /\ jobs[b].scheduled_at = None
        /\ jobs[b].started_at # None
        /\ jobs[b].started_at[1] >= jobs[a].scheduled_at[1]
        /\ execOrder = << b, a >>

\* C31: linear backoff.  A step in which an attempt of a job fails and the
\* job becomes RETRYING sets scheduled_at to the time of the failure plus the
\* job's retry_delay, whatever retry_count is; and a step that begins another
\* attempt of a job that has failed before is taken at or after scheduled_at.
LinearBackoff ==
    [][ \A j \in DOMAIN jobs \cap DOMAIN jobs' :
          /\ ( /\ jobs'[j].retry_count > jobs[j].retry_count
               /\ jobs'[j].status = RETRYING )
             => jobs'[j].scheduled_at = Some(now + jobs[j].retry_delay)
          /\ ( /\ jobs[j].retry_count > 0
               /\ calls'[j] > calls[j] )
             => /\ jobs[j].scheduled_at # None
                /\ jobs[j].scheduled_at[1] <= now ]_vars

\* an attempt failed at hour one, and the retry of the job, whose
\* retry_delay is two hours, is scheduled for hour three
WitnessLinearBackoff ==
    \E j \in DOMAIN jobs :
        /\ jobs[j].status = RETRYING
        /\ jobs[j].retry_delay = 2
        /\ jobs[j].started_at = Some(1)
        /\ jobs[j].scheduled_at = Some(3)

\* the number of entries of seq that are x
Count(seq, x) == Cardinality({ i \in 1..Len(seq) : seq[i] = x })

\* C32: a queue has at most one coordinator task, however often
\* start_all_queues is called, and no step creates a task for a job that is
\* in the running set.
SingleCoordinator ==
    [][ /\ coordinators' <= 1
        /\ \A j \in DOMAIN running : Count(ready', j) <= Count(ready, j) ]_vars

\* start_all_queues has returned and the manager has no default queue
StartedBeforeCreated ==
    /\ mgrRet = Some([ kind |-> "ok", obj |-> 0 ])
    /\ ~ Registered(queues, "default")

\* C33: once start_all_queues has run, a job submitted to a queue that is
\* created afterwards is eventually started.
LazyQueueServed ==
    \A j \in 1..MaxJobs :
        [] ( StartedBeforeCreated
             => [] ( j \in DOMAIN jobs
                     => <> (j \in DOMAIN calls /\ calls[j] > 0) ) )

\* C34: the dispatch list has no id twice, every id in it is the id of a
\* job in the job map whose status is PENDING, and no id in it is in the
\* running set.
DispatchListSound ==
    /\ \A i, k \in 1..Len(queue) : queue[i] = queue[k] => i = k
    /\ \A i \in 1..Len(queue) :
          /\ queue[i] \in DOMAIN jobs
          /\ jobs[queue[i]].status = PENDING
    /\ Range(queue) \cap DOMAIN running = {}

\* handler computations in progress: functions executing in a thread of the
\* executor, and coroutines of tasks that are waiting for their handler
InProgress ==
    Cardinality(threads)
    + Cardinality({ j \in DOMAIN running :
                      running[j] = "awaiting" /\ ~ jobs[j].func.sync })

\* C35: the number of handler computations in progress, those of cancelled
\* and timed-out jobs included, never exceeds max_workers.
ComputationsBound == InProgress <= max_workers

\* C36: a pass of the coordinator, retention cleanup included, leaves
\* total_jobs and the counters of completed, failed and cancelled jobs in
\* the result of get_queue_stats as they were, and the reported total_jobs
\* is the number of jobs submitted to the queue.
StatsSurviveCleanup ==
    [][ /\ Tick => /\ GetQueueStats'.total_jobs = GetQueueStats.total_jobs
                   /\ GetQueueStats'.stats = GetQueueStats.stats
        /\ GetQueueStats'.total_jobs = nextId' - 1 ]_vars

\* C37: a step in which add_job raises leaves the job map, the dispatch list
\* and the total counter as they were, and a step in which it returns an id
\* leaves the job of that id in the job map with status PENDING.
AddJobAllOrNothing ==
    [][ /\ SubmitOutsideLoop(OutsideInputs, MaxPrioJobs)
           => /\ jobs' = jobs
              /\ queue' = queue
              /\ stats'.total_jobs = stats.total_jobs
        /\ Submit(OutsideInputs, MaxPrioJobs)
           => /\ nextId \in DOMAIN jobs'
              /\ jobs'[nextId].status = PENDING ]_vars

====
